---- MODULE Spec2Model ----
\* Model of the koa-session-redis middleware (src/index.js): one generator
\* per request that loads the session record from redis, exposes the session
\* accessor to the downstream handler, and finalizes (no-op / del / set).
EXTENDS Integers, Sequences, FiniteSets, TLC

\* Program state: the redis keyspace, the uid generator, and per request the
\* generator's position (pc), the request cookie, the locals sid, json, sess,
\* err, the context's sessionId and the value the generator threw.
\* History: log (the store calls and cookie writes issued, the throw),
\* didRead/didAssign (the handler called the getter / the setter), added
\* (the handler added a property),
\* getFailed/writeFailed (a store call failed), json0 (json after load),
\* left (sess when the handler ended), store0 (the initial keyspace),
\* steps (accessor operations so far), assigns (the kinds of value the
\* setter accepted, in order), applied (the writes the store executed, in
\* order, over all requests).
VARIABLES store, nextUid, pc, cookieIn, sid, sessionId, json, sess, err,
          thrown, log, didRead, didAssign, added, getFailed, writeFailed,
          json0, left, store0, steps, assigns, applied

vars == <<store, nextUid, pc, cookieIn, sid, sessionId, json, sess, err,
          thrown, log, didRead, didAssign, added, getFailed, writeFailed,
          json0, left, store0, steps, assigns, applied>>

\* ------------------------------------------------------------------ bounds
\* Number of accessor operations the downstream handler performs.
MaxSteps == 2

\* Requests in flight.  Spec runs request 1 alone, SpecConc runs both.
Reqs == {1, 2}

\* ------------------------------------------------------------ JS values
\* A JavaScript value: tag, numeric payload, string payload (a sequence of
\* characters/symbols) and own enumerable properties in insertion order.
JSVal(t, num, str, ps) == [tag |-> t, n |-> num, s |-> str, props |-> ps]
Undefined == JSVal("undefined", 0, <<>>, <<>>)
Null == JSVal("null", 0, <<>>, <<>>)
False == JSVal("false", 0, <<>>, <<>>)
True == JSVal("true", 0, <<>>, <<>>)
Num(i) == JSVal("number", i, <<>>, <<>>)
Str(cs) == JSVal("string", 0, cs, <<>>)
Obj(ps) == JSVal("object", 0, <<>>, ps)
\* an array: its elements are the properties "0", "1", ...
Arr(ps) == JSVal("array", 0, <<>>, ps)
Err(name) == JSVal("error", 0, <<name>>, <<>>)
Fn == JSVal("function", 0, <<>>, <<>>)
\* the koa context object the Session keeps in this._ctx
CtxRef == JSVal("context", 0, <<>>, <<>>)

\* JavaScript truthiness, as used by `if (sid)`, `if (json)`, `!prev`,
\* `this._json || ...`, `if (err)`.
Truthy(v) ==
  CASE v.tag \in {"undefined", "null", "false"} -> FALSE
    [] v.tag = "number" -> v.n # 0
    [] v.tag = "string" -> v.s # <<>>
    [] OTHER -> TRUE

P(key, val) == [k |-> key, v |-> val]

HasProp(ps, key) == \E i \in 1..Len(ps) : ps[i].k = key

\* obj[key]: undefined when the property does not exist
GetProp(ps, key) ==
  IF HasProp(ps, key)
  THEN LET i == CHOOSE j \in 1..Len(ps) : ps[j].k = key IN ps[i].v
  ELSE Undefined

\* obj[key] = val: an existing property keeps its position, a new one is
\* appended (own-property insertion order).
SetProp(ps, key, val) ==
  IF HasProp(ps, key)
  THEN [i \in 1..Len(ps) |-> IF ps[i].k = key THEN P(key, val) ELSE ps[i]]
  ELSE Append(ps, P(key, val))

RECURSIVE CopyProps(_, _)
\* for (var k in obj) this[k] = obj[k]
CopyProps(ps, from) ==
  IF from = <<>> THEN ps
  ELSE CopyProps(SetProp(ps, Head(from).k, Head(from).v), Tail(from))

\* ------------------------------------------------------------ serializer
\* JSON text is a sequence of tokens: punctuation, a blank, the literal
\* null, a digit, or a quoted key.
DigitTok(i) == CASE i = 0 -> "0" [] i = 1 -> "1" [] i = 2 -> "2" [] OTHER -> "9"
DigitToks == {"0", "1", "2", "9"}
TokDigit(t) == CASE t = "0" -> 0 [] t = "1" -> 1 [] t = "2" -> 2 [] OTHER -> 9
\* ("[0]" is the quoted property name "0", the first index of an array)
KeyToks == {"user", "isNew", "_json", "_ctx", "[0]"}
JsonToks == {"{", "}", ":", ",", " ", "null", "?"} \cup DigitToks \cup KeyToks

\* base64 image of each token; every other symbol is outside the alphabet
B64Of(t) ==
  CASE t = "{" -> "ew"  [] t = "}" -> "fQ" [] t = ":" -> "Og"
    [] t = "," -> "LA"  [] t = " " -> "IA" [] t = "null" -> "bnVsbA"
    [] t = "?" -> "Pw"  [] t = "0" -> "MA" [] t = "1" -> "MQ"
    [] t = "2" -> "Mg"  [] t = "9" -> "OQ"
    [] t = "user" -> "InVzZXIi" [] t = "isNew" -> "ImlzTmV3Ig"
    [] t = "_json" -> "Il9qc29uIg" [] t = "_ctx" -> "Il9jdHgi"
    [] t = "[0]" -> "IjAi"
    [] OTHER -> "AA"
B64Alphabet == {B64Of(t) : t \in JsonToks}
TokOf(c) == CHOOSE t \in JsonToks : B64Of(t) = c

\* new Buffer(body).toString('base64')
ToBase64(toks) == [i \in 1..Len(toks) |-> B64Of(toks[i])]

\* new Buffer(string, 'base64').toString('utf8'): never fails, symbols
\* outside the alphabet are skipped
FromBase64(cs) ==
  LET kept == SelectSeq(cs, LAMBDA c : c \in B64Alphabet)
  IN [i \in 1..Len(kept) |-> TokOf(kept[i])]

\* 'isNew' === key and '_' === key[0] over the key universe
IsReservedKey(key) == key = "isNew" \/ key \in {"_json", "_ctx"}

\* Session.prototype.toJSON
toJSON(ps) == SelectSeq(ps, LAMBDA p : ~IsReservedKey(p.k))

RECURSIVE Members(_)
Members(ps) ==
  IF ps = <<>> THEN <<>>
  ELSE <<Head(ps).k, ":", DigitTok(Head(ps).v.n)>>
       \o (IF Len(ps) > 1 THEN <<",">> ELSE <<>>) \o Members(Tail(ps))

\* JSON.stringify of a Session (which goes through toJSON)
Stringify(ps) == <<"{">> \o Members(toJSON(ps)) \o <<"}">>

\* encode(body)
encode(ps) == ToBase64(Stringify(ps))

RECURSIVE ParseMembers(_, _)
\* members := key ":" digit ("," key ":" digit)* ; a repeated key overwrites
ParseMembers(toks, acc) ==
  IF Len(toks) < 3 \/ toks[1] \notin KeyToks \/ toks[2] # ":"
     \/ toks[3] \notin DigitToks
  THEN [ok |-> FALSE, val |-> Undefined]
  ELSE LET acc2 == SetProp(acc, toks[1], Num(TokDigit(toks[3])))
           rest == SubSeq(toks, 4, Len(toks))
       IN IF rest = <<>> THEN [ok |-> TRUE, val |-> Obj(acc2)]
          ELSE IF rest[1] = "," THEN ParseMembers(Tail(rest), acc2)
          ELSE [ok |-> FALSE, val |-> Undefined]

\* JSON.parse: ok = FALSE stands for the SyntaxError
Parse(text) ==
  LET toks == SelectSeq(text, LAMBDA t : t # " ")
  IN CASE toks = <<"null">> -> [ok |-> TRUE, val |-> Null]
       [] Len(toks) = 1 /\ toks[1] \in DigitToks ->
            [ok |-> TRUE, val |-> Num(TokDigit(toks[1]))]
       [] toks = <<"{", "}">> -> [ok |-> TRUE, val |-> Obj(<<>>)]
       [] Len(toks) > 2 /\ toks[1] = "{" /\ toks[Len(toks)] = "}" ->
            ParseMembers(SubSeq(toks, 2, Len(toks) - 1), <<>>)
       [] OTHER -> [ok |-> FALSE, val |-> Undefined]

\* decode(string)
decode(string) == Parse(FromBase64(string))

\* -------------------------------------------------------- Session entity
\* function Session(ctx, obj)
Session(obj) ==
  LET base == <<P("_ctx", CtxRef)>>
  IN JSVal("session", 0, <<>>,
           IF ~Truthy(obj) THEN SetProp(base, "isNew", True)
           ELSE CopyProps(base, obj.props))

\* mutant: every own property counts, bookkeeping included
length_AllKeys(s) == Len(s.props)

\* Session length getter
length(s) == Len(toJSON(s.props))

\* mutant: the comparison with prev is dropped
changed_Always(s, prev) ==
  IF ~Truthy(prev) THEN [sess |-> s, result |-> TRUE]
  ELSE [sess |-> [s EXCEPT !.props = SetProp(s.props, "_json", Str(encode(s.props)))],
        result |-> TRUE]

\* Session.prototype.changed: the entity after the call and the result
changed(s, prev) ==
  IF ~Truthy(prev) THEN [sess |-> s, result |-> TRUE]
  ELSE LET j == Str(encode(s.props))
       IN [sess |-> [s EXCEPT !.props = SetProp(s.props, "_json", j)],
           result |-> j # prev]

\* mutant: the cookie carries the encoded session (cookie-session style)
save_CookieJson(s, ctxSessionId) ==
  LET ctx == GetProp(s.props, "_ctx")
      cached == GetProp(s.props, "_json")
      j == IF Truthy(cached) THEN cached ELSE Str(encode(s.props))
  IN IF ctx = CtxRef
     THEN [ok |-> TRUE, cookie |-> j, json |-> j]
     ELSE [ok |-> FALSE, cookie |-> Undefined, json |-> j]

\* Session.prototype.save: the cookie written and the value returned, or
\* the TypeError of `ctx.cookies.set` when this._ctx is no context
save(s, ctxSessionId) ==
  LET ctx == GetProp(s.props, "_ctx")
      cached == GetProp(s.props, "_json")
      j == IF Truthy(cached) THEN cached ELSE Str(encode(s.props))
  IN IF ctx = CtxRef
     THEN [ok |-> TRUE, cookie |-> ctxSessionId, json |-> j]
     ELSE [ok |-> FALSE, cookie |-> Undefined, json |-> j]

\* ------------------------------------------------------------ environment
\* identifier carried by the request cookie, and the ones uid(24) produces
CookieSid == Str(<<"c1">>)
Uids == <<Str(<<"u1">>), Str(<<"u2">>)>>
Sids == {CookieSid} \cup {Uids[i] : i \in 1..Len(Uids)}

UserRecord == <<"{", "user", ":", "1", "}">>

\* Strings the store may hold under the cookie's identifier.
StoredStrings ==
  { encode(<<P("user", Num(1))>>),
    encode(<<>>),
    ToBase64(<<"{", "user", ":", " ", "1", "}">>),
    ToBase64(UserRecord) \o <<"!">>,
    ToBase64(<<"{", "isNew", ":", "1", ",", "user", ":", "1", "}">>),
    ToBase64(<<"{", "_ctx", ":", "1", ",", "user", ":", "1", "}">>),
    ToBase64(<<"{", "_json", ":", "1", ",", "user", ":", "1", "}">>),
    ToBase64(<<"{", "user", ":", "1", ",", "user", ":", "2", "}">>),
    ToBase64(<<"null">>),
    ToBase64(<<"1">>),
    ToBase64(<<"?">>),
    ToBase64(<<"{", "user">>),
    <<"!">>,
    <<>> }

\* what redis GET replies for a key: the string, or null when absent
StoredValues == {Str(cs) : cs \in StoredStrings} \cup {Null}

\* redis stores the argument of SET as a string
ToRedisString(v) == IF v.tag = "number" THEN Str(<<DigitTok(v.n)>>) ELSE v

\* what the downstream handler may do with the accessor
HandlerKeys == {"user", "isNew", "_json", "_ctx"}
HandlerVals == {Num(1), Num(2)}
AssignedObjects ==
  { <<>>,
    <<P("user", Num(1))>>,
    <<P("_json", Num(1))>>,
    <<P("user", Num(1)), P("_json", Num(1))>>,
    <<P("_ctx", Num(1)), P("user", Num(1))>> }
\* values the handler may pass to the setter: null, plain objects, arrays
\* (the empty one and [1]), and undefined, a number, a string, a boolean,
\* a function
ValidValues ==
  {Null} \cup {Obj(o) : o \in AssignedObjects}
         \cup {Arr(<<>>), Arr(<<P("[0]", Num(1))>>)}
InvalidValues == {Undefined, Num(1), Str(<<"x">>), True, Fn}
AssignedValues == ValidValues \cup InvalidValues
ThrownValues == {Err("E"), Num(0)}

Event(e, key, val) == [ev |-> e, key |-> key, val |-> val]

\* ------------------------------------------------------------------ Init
InitCommon ==
  /\ store \in [Sids -> StoredValues]
  /\ \A s \in Sids \ {CookieSid} : store[s] = Null
  /\ store0 = store
  /\ nextUid = 1
  /\ sid = [r \in Reqs |-> Undefined]
  /\ sessionId = [r \in Reqs |-> Undefined]
  /\ json = [r \in Reqs |-> Undefined]
  /\ sess = [r \in Reqs |-> Undefined]
  /\ err = [r \in Reqs |-> Undefined]
  /\ thrown = [r \in Reqs |-> Undefined]
  /\ log = [r \in Reqs |-> <<>>]
  /\ didRead = [r \in Reqs |-> FALSE]
  /\ didAssign = [r \in Reqs |-> FALSE]
  /\ added = [r \in Reqs |-> FALSE]
  /\ getFailed = [r \in Reqs |-> FALSE]
  /\ writeFailed = [r \in Reqs |-> FALSE]
  /\ json0 = [r \in Reqs |-> Undefined]
  /\ left = [r \in Reqs |-> Undefined]
  /\ steps = [r \in Reqs |-> 0]
  /\ assigns = [r \in Reqs |-> <<>>]
  /\ applied = <<>>

Init ==
  /\ InitCommon
  /\ cookieIn \in [Reqs -> {Undefined, CookieSid}]
  /\ cookieIn[2] = Undefined
  /\ pc = [r \in Reqs |-> IF r = 1 THEN "init" ELSE "idle"]

\* --------------------------------------------------------------- load
\* mutant: client.get is not wrapped in try/catch
GetResult_NoCatch(ok, reply) ==
  [json |-> IF ok THEN reply ELSE Null,
   thrown |-> IF ok THEN Undefined ELSE Err("GetError")]

\* Lines 90-95: try { json = yield client.get(sid) } catch { json = null }
GetResult(ok, reply) ==
  [json |-> IF ok THEN reply ELSE Null, thrown |-> Undefined]

\* mutant: the SyntaxError of decode is not caught
LoadResult_NoCatch(cookieSid, j, uid) ==
  IF Truthy(j)
  THEN LET d == decode(j.s)
       IN [sid |-> cookieSid, sessionId |-> cookieSid, usedUid |-> FALSE,
           sess |-> Session(d.val),
           thrown |-> IF d.ok THEN Undefined ELSE Err("SyntaxError")]
  ELSE [sid |-> uid, sessionId |-> uid, usedUid |-> TRUE,
        sess |-> Session(Undefined), thrown |-> Undefined]

\* mutant: the cookie's sid is kept when the store has no record for it
LoadResult_KeepSid(cookieSid, j, uid) ==
  LET keep == Truthy(cookieSid)
      id == IF keep THEN cookieSid ELSE uid
  IN IF Truthy(j)
     THEN LET d == decode(j.s)
          IN [sid |-> cookieSid, sessionId |-> cookieSid, usedUid |-> FALSE,
              sess |-> IF d.ok THEN Session(d.val) ELSE Session(Undefined),
              thrown |-> Undefined]
     ELSE [sid |-> id, sessionId |-> id, usedUid |-> ~keep,
           sess |-> Session(Undefined), thrown |-> Undefined]

\* mutant: line 113 assigns the fresh identifier to the local only
LoadResult_StaleSessionId(cookieSid, j, uid) ==
  IF Truthy(j)
  THEN LET d == decode(j.s)
       IN [sid |-> cookieSid, sessionId |-> cookieSid, usedUid |-> FALSE,
           sess |-> IF d.ok THEN Session(d.val) ELSE Session(Undefined),
           thrown |-> Undefined]
  ELSE [sid |-> uid, sessionId |-> Null, usedUid |-> TRUE,
        sess |-> Session(Undefined), thrown |-> Undefined]

\* Lines 98-116: the locals after the session is constructed from the
\* cookie's sid, the reply j of the store and the next uid(24); thrown is
\* the error line 109 rethrows.
LoadResult(cookieSid, j, uid) ==
  IF Truthy(j)
  THEN LET d == decode(j.s)
       IN [sid |-> cookieSid, sessionId |-> cookieSid, usedUid |-> FALSE,
           sess |-> IF d.ok THEN Session(d.val) ELSE Session(Undefined),
           thrown |-> Undefined]
  ELSE [sid |-> uid, sessionId |-> uid, usedUid |-> TRUE,
        sess |-> Session(Undefined), thrown |-> Undefined]

ThrowEvents(v) == IF v = Undefined THEN <<>> ELSE <<Event("throw", Undefined, v)>>

\* The generator ends by throwing v out of the load phase.
Abort(r, v) ==
  /\ pc' = [pc EXCEPT ![r] = "done"]
  /\ thrown' = [thrown EXCEPT ![r] = v]
  /\ log' = [log EXCEPT ![r] = @ \o ThrowEvents(v)]

Construct(r, j) ==
  LET res == LoadResult(cookieIn[r], j, Uids[nextUid])
  IN /\ json' = [json EXCEPT ![r] = j]
     /\ json0' = [json0 EXCEPT ![r] = j]
     /\ sid' = [sid EXCEPT ![r] = res.sid]
     /\ sessionId' = [sessionId EXCEPT ![r] = res.sessionId]
     /\ nextUid' = IF res.usedUid THEN nextUid + 1 ELSE nextUid
     /\ IF res.thrown = Undefined
        THEN /\ sess' = [sess EXCEPT ![r] = res.sess]
             /\ pc' = [pc EXCEPT ![r] = "handler"]
             /\ UNCHANGED <<thrown, log>>
        ELSE /\ Abort(r, res.thrown)
             /\ UNCHANGED sess

\* Lines 79-91: read the cookie; with a sid, call client.get and suspend,
\* without one go on to line 98
Begin(r) ==
  /\ pc[r] = "init"
  /\ IF Truthy(cookieIn[r])
     THEN /\ pc' = [pc EXCEPT ![r] = "get"]
          /\ sid' = [sid EXCEPT ![r] = cookieIn[r]]
          /\ sessionId' = [sessionId EXCEPT ![r] = Null]
          /\ log' = [log EXCEPT ![r] = Append(@, Event("get", cookieIn[r], Undefined))]
          /\ UNCHANGED <<json, json0, sess, nextUid, thrown>>
     ELSE Construct(r, Undefined)
  /\ UNCHANGED <<store, cookieIn, err, didRead, didAssign, added, getFailed,
                 writeFailed, left, store0, steps, assigns, applied>>

\* Lines 91-129: client.get replies or fails; the session is constructed
GetReply(r, ok) ==
  LET g == GetResult(ok, store[sid[r]])
  IN /\ pc[r] = "get"
     /\ getFailed' = [getFailed EXCEPT ![r] = ~ok]
     /\ IF g.thrown = Undefined
        THEN Construct(r, g.json)
        ELSE /\ Abort(r, g.thrown)
             /\ UNCHANGED <<json, json0, sid, sessionId, sess, nextUid>>
     /\ UNCHANGED <<store, cookieIn, err, didRead, didAssign, added,
                    writeFailed, left, store0, steps, assigns, applied>>

\* ------------------------------------------------------------- handler
InHandler(r) == pc[r] = "handler" /\ steps[r] < MaxSteps

\* one accessor operation: a call of the getter (get = TRUE) or the setter
Access(r, get) ==
  /\ didRead' = [didRead EXCEPT ![r] = @ \/ get]
  /\ didAssign' = [didAssign EXCEPT ![r] = @ \/ ~get]
  /\ steps' = [steps EXCEPT ![r] = @ + 1]

HandlerFrame(r, get) ==
  /\ Access(r, get)
  /\ UNCHANGED <<store, nextUid, pc, cookieIn, sid, sessionId, json, err,
                 thrown, log, getFailed, writeFailed, json0, left, store0,
                 applied>>

\* the session getter, lines 118-123: returns sess, or null once unset
Getter(cur) == IF cur = False THEN Null ELSE cur

HandlerRead(r) ==
  /\ InHandler(r)
  /\ HandlerFrame(r, TRUE)
  /\ UNCHANGED <<sess, added, assigns>>

\* this.session[k] = v on the entity the getter returned
HandlerSetField(r, k, v) ==
  /\ InHandler(r)
  /\ Getter(sess[r]).tag = "session"
  /\ sess' = [sess EXCEPT ![r].props = SetProp(@, k, v)]
  /\ added' = [added EXCEPT ![r] = TRUE]
  /\ HandlerFrame(r, TRUE)
  /\ UNCHANGED assigns

\* mutant: once unset the session stays unset
Setter_StickyNull(cur, val) ==
  IF val = Null THEN [ok |-> TRUE, sess |-> False]
  ELSE IF val.tag \in {"object", "array"}
    THEN [ok |-> TRUE, sess |-> IF cur = False THEN False ELSE Session(val)]
  ELSE [ok |-> FALSE, sess |-> cur]

\* mutant: no type check, whatever is not null seeds a new Session
Setter_Coerce(cur, val) ==
  IF val = Null THEN [ok |-> TRUE, sess |-> False]
  ELSE [ok |-> TRUE, sess |-> Session(val)]

\* the session setter, lines 125-129
Setter(cur, val) ==
  IF val = Null THEN [ok |-> TRUE, sess |-> False]
  ELSE IF val.tag \in {"object", "array"}
    THEN [ok |-> TRUE, sess |-> Session(val)]
  ELSE [ok |-> FALSE, sess |-> cur]

HandlerAssign(r, val) ==
  /\ InHandler(r)
  /\ Setter(sess[r], val).ok
  /\ sess' = [sess EXCEPT ![r] = Setter(sess[r], val).sess]
  /\ added' = [added EXCEPT ![r] = @ \/ val.props # <<>>]
  /\ assigns' = [assigns EXCEPT ![r] =
                   Append(@, IF val = Null THEN "null" ELSE "object")]
  /\ HandlerFrame(r, FALSE)

\* ------------------------------------------------------------ finalize
\* Lines 137-149 up to the next suspension: the branch taken ("none",
\* "del", "set", or "crash" when sess.save() throws), the entity and the
\* local json afterwards, and the cookie written (if any).
FinalizeDecision(s, j, ctxSessionId) ==
  LET nothing == [branch |-> "none", sess |-> s, json |-> j,
                  cookie |-> Undefined]
  IN IF s = Undefined THEN nothing
     ELSE IF s = False
       THEN [branch |-> "del", sess |-> s, json |-> j, cookie |-> Str(<<>>)]
     ELSE IF ~Truthy(j) /\ length(s) = 0 THEN nothing
     ELSE LET c == changed(s, j)
              sv == save(c.sess, ctxSessionId)
          IN IF ~c.result THEN [nothing EXCEPT !.sess = c.sess]
             ELSE IF sv.ok
               THEN [branch |-> "set", sess |-> c.sess, json |-> sv.json,
                     cookie |-> sv.cookie]
             ELSE [branch |-> "crash", sess |-> c.sess, json |-> j,
                   cookie |-> Undefined]

\* mutant: the captured error is dropped
Rethrow_Swallow(e) == Undefined

\* Line 152 once finalize is through: if (err) throw err
Rethrow(e) == IF Truthy(e) THEN e ELSE Undefined

\* mutant: the store call is issued before the cookie is written
FinalizeWith_StoreFirst(r, e, d) ==
  /\ err' = [err EXCEPT ![r] = e]
  /\ left' = [left EXCEPT ![r] = sess[r]]
  /\ sess' = [sess EXCEPT ![r] = d.sess]
  /\ json' = [json EXCEPT ![r] = d.json]
  /\ CASE d.branch = "none" -> Abort(r, Rethrow(e))
       [] d.branch \in {"del", "set"} ->
            /\ pc' = [pc EXCEPT ![r] = d.branch]
            /\ log' = [log EXCEPT ![r] = @ \o
                         <<Event(d.branch, sid[r],
                                 IF d.branch = "set" THEN d.json ELSE Undefined),
                           Event("cookie", Undefined, d.cookie)>>]
            /\ UNCHANGED thrown
       [] OTHER -> Abort(r, Err("TypeError"))
  /\ UNCHANGED <<store, nextUid, cookieIn, sid, sessionId, getFailed,
                 writeFailed, json0, store0, assigns, applied>>

\* mutant: the unset branch falls through to the save of lines 146-148
FinalizeWith_DelThenSet(r, e, d) ==
  /\ err' = [err EXCEPT ![r] = e]
  /\ left' = [left EXCEPT ![r] = sess[r]]
  /\ sess' = [sess EXCEPT ![r] = d.sess]
  /\ json' = [json EXCEPT ![r] = d.json]
  /\ CASE d.branch = "none" -> Abort(r, Rethrow(e))
       [] d.branch \in {"del", "set"} ->
            /\ pc' = [pc EXCEPT ![r] = d.branch]
            /\ log' = [log EXCEPT ![r] = @ \o
                         (IF d.branch = "del"
                          THEN <<Event("cookie", Undefined, d.cookie),
                                 Event("del", sid[r], Undefined)>>
                          ELSE <<>>) \o
                         <<Event("cookie", Undefined, sessionId[r]),
                           Event("set", sid[r], d.json)>>]
            /\ UNCHANGED thrown
       [] OTHER -> Abort(r, Err("TypeError"))
  /\ UNCHANGED <<store, nextUid, cookieIn, sid, sessionId, getFailed,
                 writeFailed, json0, store0, assigns, applied>>

\* Lines 133-152 for the finalize decision d: the handler ended with error
\* e (Undefined: it returned); go up to the store call, or to the end.
FinalizeWith(r, e, d) ==
  /\ err' = [err EXCEPT ![r] = e]
  /\ left' = [left EXCEPT ![r] = sess[r]]
  /\ sess' = [sess EXCEPT ![r] = d.sess]
  /\ json' = [json EXCEPT ![r] = d.json]
  /\ CASE d.branch = "none" -> Abort(r, Rethrow(e))
       [] d.branch = "del" ->
            /\ pc' = [pc EXCEPT ![r] = "del"]
            /\ log' = [log EXCEPT ![r] = @ \o
                         <<Event("cookie", Undefined, d.cookie),
                           Event("del", sid[r], Undefined)>>]
            /\ UNCHANGED thrown
       [] d.branch = "set" ->
            /\ pc' = [pc EXCEPT ![r] = "set"]
            /\ log' = [log EXCEPT ![r] = @ \o
                         <<Event("cookie", Undefined, d.cookie),
                           Event("set", sid[r], d.json)>>]
            /\ UNCHANGED thrown
       [] OTHER -> Abort(r, Err("TypeError"))
  /\ UNCHANGED <<store, nextUid, cookieIn, sid, sessionId, getFailed,
                 writeFailed, json0, store0, assigns, applied>>

\* mutant: no catch around yield *next, so an error skips finalize
Finalize_SkipOnError(r, e) ==
  FinalizeWith(r, e,
    IF e # Undefined
    THEN [branch |-> "none", sess |-> sess[r], json |-> json[r], cookie |-> Undefined]
    ELSE FinalizeDecision(sess[r], json[r], sessionId[r]))

\* Lines 131-149: whatever the handler did, finalize runs on the current
\* session
Finalize(r, e) ==
  FinalizeWith(r, e, FinalizeDecision(sess[r], json[r], sessionId[r]))

\* yield *next returns
HandlerReturn(r) ==
  /\ pc[r] = "handler"
  /\ Finalize(r, Undefined)
  /\ UNCHANGED <<didRead, didAssign, added, steps>>

\* yield *next throws e
HandlerThrow(r, e) ==
  /\ pc[r] = "handler"
  /\ Finalize(r, e)
  /\ UNCHANGED <<didRead, didAssign, added, steps>>

\* the setter rejects val; the handler catches the Error and goes on, or
\* lets it propagate
HandlerAssignInvalid(r, val, caught) ==
  /\ InHandler(r)
  /\ ~Setter(sess[r], val).ok
  /\ UNCHANGED added
  /\ IF caught
     THEN /\ HandlerFrame(r, FALSE)
          /\ UNCHANGED <<sess, assigns>>
     ELSE /\ Access(r, FALSE)
          /\ Finalize(r, Err("InvalidAssignment"))

\* mutant: SET ... NX, a record that exists is not overwritten
StoreAfter_NoOverwrite(st, op, key, val) ==
  IF op = "del" THEN [st EXCEPT ![key] = Null]
  ELSE IF st[key] = Null THEN [st EXCEPT ![key] = ToRedisString(val)]
  ELSE st

\* the keyspace once redis has executed DEL key / SET key val
StoreAfter(st, op, key, val) ==
  [st EXCEPT ![key] = IF op = "del" THEN Null ELSE ToRedisString(val)]

\* mutant: a failing client.set / client.del is caught and dropped
WriteResult_Swallow(ok, e) == Rethrow(e)

\* what the generator throws once `yield client.del(sid)` or `yield
\* client.set(sid, json)` resumes: the store's error when the call failed,
\* else line 152 decides
WriteResult(ok, e) == IF ok THEN Rethrow(e) ELSE Err("StoreError")

\* Lines 142/148 resume: client.del / client.set replies or fails, then
\* line 152
StoreReply(r, ok) ==
  /\ pc[r] \in {"del", "set"}
  /\ writeFailed' = [writeFailed EXCEPT ![r] = ~ok]
  /\ IF ok
     THEN /\ store' = StoreAfter(store, pc[r], sid[r], json[r])
          /\ applied' = Append(applied, [r |-> r, op |-> pc[r], key |-> sid[r],
                                         val |-> store'[sid[r]]])
     ELSE UNCHANGED <<store, applied>>
  /\ Abort(r, WriteResult(ok, err[r]))
  /\ UNCHANGED <<nextUid, cookieIn, sid, sessionId, json, sess, err, didRead,
                 didAssign, added, getFailed, json0, left, store0, steps,
                 assigns>>

\* ------------------------------------------------------------------ Next
Step(r) ==
  \/ Begin(r)
  \/ \E ok \in BOOLEAN : GetReply(r, ok)
  \/ HandlerReturn(r)
  \/ \E e \in ThrownValues : HandlerThrow(r, e)
  \/ HandlerRead(r)
  \/ \E k \in HandlerKeys, v \in HandlerVals : HandlerSetField(r, k, v)
  \/ \E val \in AssignedValues : HandlerAssign(r, val)
  \/ \E val \in AssignedValues, caught \in BOOLEAN :
       HandlerAssignInvalid(r, val, caught)
  \/ \E ok \in BOOLEAN : StoreReply(r, ok)

Next == Step(1)

Spec == Init /\ [][Next]_vars

\* ================================================================ claims
\* the handler of request r called the getter or the setter
Touched(r) == didRead[r] \/ didAssign[r]
\* the finalize phase of request r has run
Finalized(r) == pc[r] \in {"del", "set", "done"} /\ left[r] # Undefined
EventsOf(r, e) == SelectSeq(log[r], LAMBDA x : x.ev = e)
NoStoreWrite(r) == EventsOf(r, "set") = <<>> /\ EventsOf(r, "del") = <<>>
\* the decision finalize takes on the session the handler left
Outcome(r) == FinalizeDecision(left[r], json0[r], sessionId[r]).branch

\* C1 (as claimed): whatever the load outcome, a request whose handler never
\* read nor assigned the session accessor issues no store set, no store del
\* and writes no cookie.
C1_UntouchedNoWrite ==
  \A r \in Reqs :
    (Finalized(r) /\ ~Touched(r)) =>
      (NoStoreWrite(r) /\ EventsOf(r, "cookie") = <<>>)

\* C2 (as claimed): a session left null gives exactly one del, no set, an
\* empty cookie, and the del is keyed by the cookie's identifier whenever the
\* request carried one.
C2_UnsetKeyedByCookie ==
  \A r \in Reqs :
    (Finalized(r) /\ left[r] = False) =>
      /\ EventsOf(r, "set") = <<>>
      /\ Len(EventsOf(r, "del")) = 1
      /\ EventsOf(r, "cookie") = <<Event("cookie", Undefined, Str(<<>>))>>
      /\ Truthy(cookieIn[r]) => EventsOf(r, "del")[1].key = cookieIn[r]

\* C2 (amended): a session left null gives exactly one del, no set and an
\* empty cookie; the del is keyed by the cookie's identifier when the store
\* returned a non-empty record for it, and by a freshly generated identifier
\* otherwise (no cookie, store miss, empty record, load error).
C2_Unset ==
  \A r \in Reqs :
    (Finalized(r) /\ left[r] = False) =>
      /\ EventsOf(r, "set") = <<>>
      /\ Len(EventsOf(r, "del")) = 1
      /\ EventsOf(r, "cookie") = <<Event("cookie", Undefined, Str(<<>>))>>
      /\ LET key == EventsOf(r, "del")[1].key
         IN IF Truthy(cookieIn[r]) /\ Truthy(json0[r])
            THEN key = cookieIn[r]
            ELSE key # cookieIn[r] /\ \E i \in 1..Len(Uids) : key = Uids[i]

\* a loaded session was unset and its record deleted under the cookie's sid
C2_Witness ==
  /\ pc[1] = "done" /\ left[1] = False /\ ~writeFailed[1]
  /\ Truthy(json0[1]) /\ decode(json0[1].s).ok
  /\ EventsOf(1, "del") = <<Event("del", CookieSid, Undefined)>>
  /\ store[CookieSid] = Null

\* C3: when the handler raises after leaving the session in a state that
\* finalize saves, the cookie write and the store set are issued, and both
\* come before the generator throws.
C3_SaveBeforeRethrow ==
  \A r \in Reqs :
    (Finalized(r) /\ err[r] # Undefined /\ Outcome(r) = "set") =>
      \E i, j \in 1..Len(log[r]) :
        /\ i < j
        /\ log[r][i].ev = "cookie" /\ log[r][i].val = sid[r]
        /\ log[r][j].ev = "set" /\ log[r][j].key = sid[r]
        /\ \A k \in 1..Len(log[r]) : log[r][k].ev = "throw" => k > j

\* the handler changed a loaded session and raised E; the set went through
\* and E was thrown after it
C3_Witness ==
  /\ pc[1] = "done" /\ err[1] = Err("E") /\ thrown[1] = Err("E")
  /\ Truthy(json0[1])
  /\ Len(EventsOf(1, "set")) = 1
  /\ store[CookieSid] # store0[CookieSid]
  /\ log[1][Len(log[1])].ev = "throw"

Loaded(r) == Truthy(json0[r]) /\ decode(json0[r].s).ok
\* the entity the load phase built from it
LoadedEntity(r) == Session(decode(json0[r].s).val)
\* the record is what the encoder produces for the fields it decodes to
Canonical(r) == json0[r].s = encode(LoadedEntity(r).props)
\* the properties of an entity other than the constructor's own bookkeeping
\* (the context reference, the isNew flag it sets to true)
FieldsOf(ps) ==
  {p \in {ps[i] : i \in 1..Len(ps)} :
     ~(p.k = "_ctx" /\ p.v = CtxRef) /\ ~(p.k = "isNew" /\ p.v = True)}
PairsOf(ps) == {ps[i] : i \in 1..Len(ps)}

\* C5 (as claimed): for a session loaded from a decodable record, when the
\* handler's mutations make its encoding differ from the record, finalize
\* issues exactly one set under the request's identifier and the string
\* written decodes to exactly the fields the handler left, whatever their
\* keys.
C5_SavedDecodesToFields ==
  \A r \in Reqs :
    (/\ Finalized(r) /\ Loaded(r) /\ Canonical(r) /\ added[r]
     /\ left[r].tag = "session"
     /\ encode(left[r].props) # json0[r].s) =>
      /\ Len(EventsOf(r, "set")) = 1
      /\ EventsOf(r, "del") = <<>>
      /\ LET w == EventsOf(r, "set")[1]
         IN /\ w.key = cookieIn[r]
            /\ w.val.tag = "string"
            /\ decode(w.val.s).ok
            /\ PairsOf(decode(w.val.s).val.props) = FieldsOf(left[r].props)

\* C6 (as claimed): for a session loaded from any record that decodes, a
\* handler that reads the session and alters nothing causes no store set and
\* no store del.
C6_ReadOnlyNoWriteAnyRecord ==
  \A r \in Reqs :
    (/\ Finalized(r) /\ Loaded(r) /\ didRead[r] /\ ~didAssign[r] /\ ~added[r]
     /\ left[r] = LoadedEntity(r)) =>
      NoStoreWrite(r)

\* C6 (amended): for a session loaded from a record that is the encoder's
\* output for the fields it decodes to, a handler that reads the session and
\* alters nothing causes no store set and no store del.
C6_ReadOnlyNoWrite ==
  \A r \in Reqs :
    (/\ Finalized(r) /\ Loaded(r) /\ Canonical(r)
     /\ didRead[r] /\ ~didAssign[r] /\ ~added[r]
     /\ left[r] = LoadedEntity(r)) =>
      NoStoreWrite(r)

\* a populated canonical record was loaded and read, and the request ended
\* with the get as its only store call
C6_Witness ==
  /\ pc[1] = "done" /\ Loaded(1) /\ Canonical(1)
  /\ didRead[1] /\ ~didAssign[1] /\ ~added[1]
  /\ left[1] = LoadedEntity(1) /\ length(left[1]) > 0
  /\ log[1] = <<Event("get", CookieSid, Undefined)>>

\* C7 (as claimed): without a cookie a fresh sid is generated, and a session
\* left with a non-empty field mapping gives exactly one set(sid, encoding of
\* the session's current fields) and a cookie whose value is that sid.
C7_NewSessionSaved ==
  \A r \in Reqs :
    (/\ Finalized(r) /\ ~Truthy(cookieIn[r])
     /\ left[r].tag = "session" /\ length(left[r]) > 0) =>
      /\ \E i \in 1..Len(Uids) : sid[r] = Uids[i]
      /\ EventsOf(r, "set") = <<Event("set", sid[r], Str(encode(left[r].props)))>>
      /\ EventsOf(r, "cookie") = <<Event("cookie", Undefined, sid[r])>>

\* C8 (as claimed): without a cookie, a handler that never adds a field
\* causes no store set and no store del, and the store stays as it was.
C8_NeverAddedNoWrite ==
  \A r \in Reqs :
    (Finalized(r) /\ ~Truthy(cookieIn[r]) /\ ~added[r]) =>
      (NoStoreWrite(r) /\ store = store0)

\* C8 (amended): without a cookie, a handler that never adds a field and
\* does not leave the session set to null causes no store set and no store
\* del, and the store stays as it was.
C8_EmptyNewNoWrite ==
  \A r \in Reqs :
    (Finalized(r) /\ ~Truthy(cookieIn[r]) /\ ~added[r] /\ left[r] # False) =>
      (NoStoreWrite(r) /\ store = store0)

\* a request without cookie whose handler touched the session, added
\* nothing, and ended with an empty log
C8_Witness ==
  /\ pc[1] = "done" /\ ~Truthy(cookieIn[1]) /\ Touched(1) /\ ~added[1]
  /\ left[1].tag = "session" /\ log[1] = <<>>

\* the store returned, for the cookie's sid, a string that does not decode
Malformed(r) == Truthy(json0[r]) /\ ~decode(json0[r].s).ok

\* C9: a malformed record raises nothing in the load phase; the handler
\* starts on a session with no fields and isNew true, and the request only
\* ends through finalize.
C9_CorruptedRecovered ==
  \A r \in Reqs :
    Malformed(r) =>
      /\ pc[r] \in {"handler", "del", "set", "done"}
      /\ (pc[r] = "handler" /\ steps[r] = 0) =>
           /\ sess[r].tag = "session"
           /\ length(sess[r]) = 0
           /\ FieldsOf(sess[r].props) = {}
           /\ GetProp(sess[r].props, "isNew") = True
           /\ thrown[r] = Undefined
      /\ pc[r] = "done" => left[r] # Undefined

\* a malformed record was received and the handler is about to start
C9_Witness ==
  /\ Malformed(1) /\ pc[1] = "handler" /\ steps[1] = 0
  /\ json0[1] = Str(ToBase64(<<"{", "user">>))

\* C10: when client.get fails the load error is never thrown; the request
\* goes on as on a store miss: json is null, a fresh sid is generated, the
\* handler starts on an empty new session, and the request only ends through
\* finalize.
C10_ReadPathDegrades ==
  \A r \in Reqs :
    getFailed[r] =>
      /\ pc[r] \in {"handler", "del", "set", "done"}
      /\ thrown[r] # Err("GetError")
      /\ json0[r] = Null
      /\ sid[r] # cookieIn[r] /\ (\E i \in 1..Len(Uids) : sid[r] = Uids[i])
      /\ sessionId[r] = sid[r]
      /\ (pc[r] = "handler" /\ steps[r] = 0) => sess[r] = Session(Undefined)
      /\ pc[r] = "done" => left[r] # Undefined

\* client.get failed although the store holds a record, and the handler is
\* about to start
C10_Witness ==
  /\ getFailed[1] /\ pc[1] = "handler" /\ steps[1] = 0
  /\ Truthy(store[CookieSid])

\* ---------------------------------------------------------------- C11
\* C11: when the set or del that finalize issued fails, the request ends by
\* throwing an error (the store's), whatever the handler did; it never
\* ends normally.
C11_WriteFailureRaised ==
  \A r \in Reqs :
    (pc[r] = "done" /\ writeFailed[r]) =>
      /\ Truthy(thrown[r])
      /\ thrown[r] = Err("StoreError")
      /\ log[r][Len(log[r])] = Event("throw", Undefined, thrown[r])
      /\ Len(EventsOf(r, "set")) + Len(EventsOf(r, "del")) = 1

\* a handler that returned normally, a set that failed, the error thrown
C11_Witness ==
  /\ pc[1] = "done" /\ writeFailed[1] /\ err[1] = Undefined
  /\ EventsOf(1, "set") # <<>>
  /\ thrown[1] = Err("StoreError")

\* ---------------------------------------------------------------- C12
SeqSet(s) == {s[i] : i \in 1..Len(s)}
\* the load phase of request r is over and the handler has been entered
PastLoad(r) == pc[r] \in {"handler", "del", "set", "done"} /\ sess[r] # Undefined
\* the identifiers request r passed to the store, and wrote to the cookie
StoreKeys(r, evs) == {x.key : x \in {y \in SeqSet(log[r]) : y.ev \in evs}}
CookieIds(r) ==
  {x.val : x \in {y \in SeqSet(log[r]) : y.ev = "cookie" /\ y.val # Str(<<>>)}}

\* C12 (as claimed): for every load outcome the key of the get at load is
\* the key of every set or del at finalize and the identifier of every
\* cookie written; the identifier resolved from the cookie never changes.
C12_IdentifierNeverChanges ==
  \A r \in Reqs :
    Truthy(cookieIn[r]) =>
      StoreKeys(r, {"get", "set", "del"}) \cup CookieIds(r) \subseteq {cookieIn[r]}

C12_SettledAfterLoad ==
  \A r \in Reqs :
    PastLoad(r) =>
      /\ sid[r] = sessionId[r]
      /\ IF Truthy(json0[r])
         THEN sid[r] = cookieIn[r]
         ELSE /\ sid[r] \in SeqSet(Uids)
              /\ sid[r] # cookieIn[r]
              /\ store0[sid[r]] = Null
      /\ StoreKeys(r, {"get"}) \subseteq {cookieIn[r]}
      /\ StoreKeys(r, {"set", "del"}) \cup CookieIds(r) \subseteq {sid[r]}

C12_KeptAfterLoad ==
  \A r \in Reqs :
    PastLoad(r) => sid'[r] = sid[r] /\ sessionId'[r] = sessionId[r]

\* C12 (amended): the identifier is settled by the end of the load phase,
\* as the cookie's when the store returned a non-empty record for it (hit
\* or malformed) and as a freshly generated one otherwise (no cookie, miss,
\* empty record, load error: the get was keyed by the cookie's, which is
\* then dropped); from then on it never changes, and it is the key of every
\* set and del and the value of every non-empty cookie written.
C12_IdentifierStable == []C12_SettledAfterLoad /\ [][C12_KeptAfterLoad]_vars

\* a miss for the cookie's identifier, then a save under the fresh one
C12_Witness ==
  /\ pc[1] = "done" /\ cookieIn[1] = CookieSid /\ json0[1] = Null
  /\ ~getFailed[1]
  /\ StoreKeys(1, {"get"}) = {CookieSid}
  /\ StoreKeys(1, {"set"}) = {Uids[1]}
  /\ CookieIds(1) = {Uids[1]}

\* ---------------------------------------------------------------- C13
\* Two requests in flight that carry the same cookie.  Each is one run of
\* the generator of lines 78-153; the runs interleave at every store call
\* (yield) and at every handler step.
ConcRecords == {Str(encode(<<P("user", Num(1))>>)), Str(encode(<<>>)), Null}

InitConc ==
  /\ InitCommon
  /\ store[CookieSid] \in ConcRecords
  /\ cookieIn = [r \in Reqs |-> CookieSid]
  /\ pc = [r \in Reqs |-> "init"]

StepConc(r) ==
  \/ Begin(r)
  \/ \E ok \in BOOLEAN : GetReply(r, ok)
  \/ HandlerReturn(r)
  \/ \E v \in HandlerVals : HandlerSetField(r, "user", v)
  \/ HandlerAssign(r, Null)
  \/ \E ok \in BOOLEAN : StoreReply(r, ok)

NextConc == \E r \in Reqs : StepConc(r)

SpecConc == InitConc /\ [][NextConc]_vars

\* request r loaded a non-empty record and its handler left a session whose
\* encoding differs from it
ChangedRecord(r) ==
  /\ Truthy(json0[r]) /\ left[r] \notin {Undefined, False}
  /\ added[r] /\ Str(encode(left[r].props)) # json0[r]

\* C13: when two requests with the same identifier load the same record and
\* both change the session, each issues its set in every interleaving
\* (exactly one, keyed by the shared identifier, none withheld), and once
\* both have ended the record in the store is the string of the set the
\* store executed last: the encoding of that request's session alone.
C13_LastWriteWins ==
  (/\ \A r \in Reqs : Finalized(r) /\ ChangedRecord(r)
   /\ json0[1] = json0[2])
  => /\ \A r \in Reqs :
          /\ EventsOf(r, "set") =
               <<Event("set", CookieSid, Str(encode(left[r].props)))>>
          /\ EventsOf(r, "del") = <<>>
          /\ (pc[r] = "done" /\ ~writeFailed[r]) =>
               \E i \in 1..Len(applied) : applied[i].r = r
     /\ applied # <<>> =>
          LET w == applied[Len(applied)]
          IN /\ store[CookieSid] = w.val
             /\ w.val = Str(encode(left[w.r].props))

\* both loaded {user:1}; request 1 wrote user:2 and its set ran first,
\* request 2 wrote a different session and its set ran last
C13_Witness ==
  /\ \A r \in Reqs : pc[r] = "done" /\ ChangedRecord(r) /\ ~writeFailed[r]
  /\ json0[1] = json0[2]
  /\ Len(applied) = 2 /\ applied[1].r = 1 /\ applied[2].r = 2
  /\ applied[1].val # applied[2].val
  /\ store[CookieSid] = applied[2].val

\* ---------------------------------------------------------------- C14
\* what request r did to the store and the cookie, by outcome
NoOpEffects(r) ==
  NoStoreWrite(r) /\ EventsOf(r, "cookie") = <<>>
DeletedEffects(r) ==
  /\ Len(EventsOf(r, "del")) = 1 /\ EventsOf(r, "set") = <<>>
  /\ EventsOf(r, "cookie") = <<Event("cookie", Undefined, Str(<<>>))>>
SavedEffects(r) ==
  /\ Len(EventsOf(r, "set")) = 1 /\ EventsOf(r, "del") = <<>>
  /\ Len(EventsOf(r, "cookie")) = 1
  /\ EventsOf(r, "cookie")[1].val # Str(<<>>)
WritesOf(r) == {i \in 1..Len(applied) : applied[i].r = r}

C14_OneOutcome ==
  \A r \in Reqs :
    /\ Len(EventsOf(r, "set")) + Len(EventsOf(r, "del")) <= 1
    /\ Cardinality(WritesOf(r)) <= 1
    /\ (pc[r] \in {"del", "set", "done"} /\ PastLoad(r)) => Finalized(r)
    /\ ~Finalized(r) => NoOpEffects(r)
    /\ Finalized(r) =>
         CASE Outcome(r) = "del" -> DeletedEffects(r)
           [] Outcome(r) = "set" -> SavedEffects(r)
           [] OTHER -> NoOpEffects(r)

C14_NotRepeated ==
  \A r \in Reqs :
    Finalized(r) =>
      /\ left'[r] = left[r]
      /\ \A e \in {"set", "del", "cookie"} : EventsOf(r, e)' = EventsOf(r, e)

\* C14: a request that completed load and whose handler ended has run the
\* finalize decision, and runs it once: its effects are those of exactly
\* one of NoOp (nothing issued), Deleted (one del) and Saved (one set), it
\* issues at most one store mutation in total, and once the decision is
\* taken no further store call or cookie write is issued.
C14_FinalizeOnce == []C14_OneOutcome /\ [][C14_NotRepeated]_vars

\* a request that unset the session: one del, executed once, nothing else
C14_Witness ==
  /\ pc[1] = "done" /\ left[1] = False /\ DeletedEffects(1)
  /\ Len(applied) = 1 /\ applied[1].op = "del"
  /\ store[sid[1]] = Null

\* ---------------------------------------------------------------- C15
\* the handler of request r passes v to the session setter
AssignStep(r, v) ==
  HandlerAssign(r, v) \/ \E c \in BOOLEAN : HandlerAssignInvalid(r, v, c)

\* the step raises InvalidAssignment and the session value stays: the
\* handler goes on with it, or finalize runs on it with the outcome the
\* request had before the assignment
RejectedBy(r, v) ==
  LET d == FinalizeDecision(sess[r], json[r], sessionId[r])
  IN /\ ~Setter(sess[r], v).ok
     /\ Setter(sess[r], v).sess = sess[r]
     /\ assigns'[r] = assigns[r]
     /\ IF pc'[r] = "handler"
        THEN sess'[r] = sess[r]
        ELSE /\ left'[r] = sess[r]
             /\ err'[r] = Err("InvalidAssignment")
             /\ pc'[r] = (IF d.branch \in {"del", "set"} THEN d.branch ELSE "done")
             /\ d.branch = "none" => thrown'[r] = err'[r]

Arrays == {v \in ValidValues : v.tag = "array"}

\* C15 (as claimed): assigning a number, a string, a boolean, undefined, a
\* function or an array raises InvalidAssignment and leaves the session
\* value unchanged.
C15_NonPlainRejected ==
  [][\A r \in Reqs : \A v \in InvalidValues \cup Arrays :
       AssignStep(r, v) => RejectedBy(r, v)]_vars

\* C15 (amended): assigning a number, a string, a boolean, undefined or a
\* function raises InvalidAssignment and leaves the session value
\* unchanged, so the finalize outcome is the one the request would have had
\* without the assignment.  (An array is accepted like an object.)
C15_InvalidRejected ==
  [][\A r \in Reqs : \A v \in InvalidValues :
       AssignStep(r, v) => RejectedBy(r, v)]_vars

\* the handler passed an invalid value to the setter of a loaded session
\* and let the error propagate: nothing is written, the error is raised
C15_Witness ==
  /\ pc[1] = "done" /\ err[1] = Err("InvalidAssignment")
  /\ thrown[1] = err[1] /\ steps[1] = 1 /\ didAssign[1]
  /\ Loaded(1) /\ Canonical(1) /\ left[1] = LoadedEntity(1)
  /\ NoOpEffects(1) /\ assigns[1] = <<>>

\* ---------------------------------------------------------------- C16
\* C16 (as claimed): after a malformed record the session is new, so when
\* the handler leaves it without fields (read or not) finalize is NoOp: no
\* set, no cookie, and the malformed record stays in the store.
C16_CorruptedEmptyNoWrite ==
  \A r \in Reqs :
    (/\ Malformed(r) /\ Finalized(r)
     /\ ~didAssign[r] /\ ~added[r]
     /\ left[r].tag = "session" /\ length(left[r]) = 0)
    => /\ NoOpEffects(r)
       /\ store[cookieIn[r]] = store0[cookieIn[r]]

\* ---------------------------------------------------------------- C17
\* the kind of value the handler of request r assigned last
LastAssigned(r) == assigns[r][Len(assigns[r])]

\* C17: finalize looks at the session value current when the handler ends
\* and at nothing it held before.  A session last set to null ends Deleted,
\* whatever was assigned or added earlier; a session set to null and then
\* replaced by an object issues no del, and in the handler the getter
\* returns the replacing entity and not null.
C17_FinalValueDecides ==
  \A r \in Reqs :
    /\ Finalized(r) => (left[r] = False <=> DeletedEffects(r))
    /\ assigns[r] # <<>> =>
         IF LastAssigned(r) = "null"
         THEN /\ pc[r] = "handler" => Getter(sess[r]) = Null
              /\ Finalized(r) => DeletedEffects(r)
         ELSE /\ pc[r] = "handler" => Getter(sess[r]).tag = "session"
              /\ Finalized(r) =>
                   /\ EventsOf(r, "del") = <<>>
                   /\ left[r].tag = "session"
                   /\ Outcome(r) = "set" => SavedEffects(r)

\* set to null, then replaced by {user: 1}: saved, nothing deleted
C17_Witness ==
  /\ pc[1] = "done" /\ assigns[1] = <<"null", "object">>
  /\ SavedEffects(1) /\ ~writeFailed[1]
  /\ Str(encode(<<P("user", Num(1))>>)) = store[sid[1]]

\* ---------------------------------------------------------------- C18
\* C18: the cookie is written before the store call is issued: a del is
\* preceded by the write of the empty cookie, a set by the write of the
\* identifier.  A failing store call does not undo the cookie: no cookie
\* write follows the store call, and the request ends with the cookie
\* written and the store's error thrown.
C18_CookieBeforeStore ==
  \A r \in Reqs : \A j \in 1..Len(log[r]) :
    /\ log[r][j].ev \in {"set", "del"} =>
         /\ j > 1 /\ log[r][j - 1].ev = "cookie"
         /\ log[r][j - 1].val =
              (IF log[r][j].ev = "del" THEN Str(<<>>) ELSE sessionId[r])
         /\ \A k \in (j + 1)..Len(log[r]) : log[r][k].ev = "throw"
         /\ (pc[r] = "done" /\ writeFailed[r]) =>
              /\ Len(EventsOf(r, "cookie")) = 1
              /\ store = store0
    /\ log[r][j].ev = "cookie" =>
         j < Len(log[r]) /\ log[r][j + 1].ev \in {"set", "del"}

\* the cookie was cleared, then the del failed
C18_Witness ==
  /\ pc[1] = "done" /\ writeFailed[1] /\ left[1] = False
  /\ cookieIn[1] = CookieSid
  /\ log[1] = <<Event("get", CookieSid, Undefined),
                Event("cookie", Undefined, Str(<<>>)),
                Event("del", sid[1], Undefined),
                Event("throw", Undefined, Err("StoreError"))>>

\* ---------------------------------------------------------------- C19
\* C19: in a Saved request the value written to the cookie is the key of
\* the store set of that request: an identifier, never the record string,
\* which only goes to the store.
C19_CookieIsStoreKey ==
  \A r \in Reqs :
    (Finalized(r) /\ EventsOf(r, "set") # <<>>) =>
      LET w == EventsOf(r, "set")[1]
          c == EventsOf(r, "cookie")
      IN /\ Len(c) = 1
         /\ c[1].val = w.key
         /\ c[1].val \in Sids
         /\ c[1].val # ToRedisString(w.val)
         /\ (pc[r] = "done" /\ ~writeFailed[r] /\ Len(applied) = 1) =>
              /\ store[c[1].val] = ToRedisString(w.val)
              /\ store[c[1].val] \notin Sids

\* a request without cookie whose handler populated the session: the fresh
\* identifier is in the cookie and is the key of the record
C19_Witness ==
  /\ pc[1] = "done" /\ cookieIn[1] = Undefined /\ ~writeFailed[1]
  /\ EventsOf(1, "cookie") = <<Event("cookie", Undefined, Uids[1])>>
  /\ EventsOf(1, "set") =
       <<Event("set", Uids[1], Str(encode(<<P("user", Num(2))>>)))>>
  /\ store[Uids[1]] = Str(encode(<<P("user", Num(2))>>))

\* ---------------------------------------------------------------- C20
\* C20: a set is keyed either by the cookie's identifier, and then the
\* store returned a non-empty record for it at load in this request, or by
\* an identifier generated in this request.  After a miss or a load error
\* the cookie's identifier is neither the key of a set nor written back to
\* the cookie, and no record appears under it.
C20_NoClientChosenKey ==
  \A r \in Reqs :
    /\ \A k \in StoreKeys(r, {"set"}) :
         \/ k = cookieIn[r] /\ Truthy(json0[r]) /\ ~getFailed[r]
         \/ k \in SeqSet(Uids) /\ k # cookieIn[r] /\ store0[k] = Null
    /\ (PastLoad(r) /\ Truthy(cookieIn[r]) /\ ~Truthy(json0[r])) =>
         /\ cookieIn[r] \notin StoreKeys(r, {"set"}) \cup CookieIds(r)
         /\ store[cookieIn[r]] = store0[cookieIn[r]]

\* the get for the cookie's identifier failed although a record exists; the
\* populated session is saved under a fresh identifier
C20_Witness ==
  /\ pc[1] = "done" /\ getFailed[1] /\ ~writeFailed[1]
  /\ Truthy(store0[CookieSid])
  /\ StoreKeys(1, {"set"}) = {Uids[1]}
  /\ Truthy(store[Uids[1]])
  /\ store[CookieSid] = store0[CookieSid]

====
